---- MODULE Spec2Model ----
(***************************************************************************)
(* A model of the code-owner reviewers action (src/src/index.js).          *)
(*                                                                         *)
(* Four specifications share the module:                                   *)
(*   SpecOwners  getCodeOwners' file pipeline: getMetaFiles, the fallback  *)
(*               to the default owners file, and getMetaInfoFromFiles with *)
(*               its concurrent file reads.                                *)
(*   Spec        one run of the action's main flow against a pull request; *)
(*   SpecReviews one run on a review event, over review histories in any   *)
(*               order of their timestamps;                                *)
(*   SpecRerun   the same flow run again and again on the same pull        *)
(*               request, whose state only the action itself changes.      *)
(***************************************************************************)
EXTENDS Naturals, Sequences, FiniteSets, TLC

(***************************************************************************)
(* Bounds of the model.                                                    *)
(***************************************************************************)
\* Longest list of changed files handed to getMetaFiles.
MaxChanged == 2
\* Longest owners-file content, in characters.
MaxContent == 3

(***************************************************************************)
(* Generic helpers.                                                        *)
(***************************************************************************)
SeqsUpTo(S, n) == UNION {[1..k -> S] : k \in 0..n}

Range(s) == {s[i] : i \in 1..Len(s)}

NoRepeat(s) == \A i, j \in 1..Len(s) : s[i] = s[j] => i = j

Front(s) == SubSeq(s, 1, Len(s) - 1)

\* [...new Set(list)]: the distinct elements, in order of first occurrence.
RECURSIVE Dedupe(_)
Dedupe(s) ==
    IF s = <<>> THEN <<>>
    ELSE LET rest == Dedupe(Front(s))
             last == s[Len(s)]
         IN IF last \in Range(rest) THEN rest ELSE Append(rest, last)

(***************************************************************************)
(* The workspace: paths are sequences of segments, an owners file's        *)
(* content is a sequence of characters.                                    *)
(***************************************************************************)
ownersFilename == "OWNERS"

WorkspaceFiles == {<<"a", "x.js">>, <<"a", "b", "y.js">>, <<"z.js">>}

OwnersPaths == {<<"a", ownersFilename>>, <<ownersFilename>>}

\* The bare ownersFilename getCodeOwners falls back to: a path relative to
\* the process's working directory, which need not be the workspace.
DefaultOwnersPath == <<".", ownersFilename>>

\* What findNearestFile returns when no ancestor directory holds the file: a
\* falsy value (getMetaInfoFromFiles tests `!file`).
Absent == <<>>

Chars == {"a", "b", "\n"}

Contents == SeqsUpTo(Chars, MaxContent)

\* fse.readFile: the file's text, or a rejection.
ReadOutcomes ==
    [ok : {TRUE}, data : Contents] \cup {[ok |-> FALSE, data |-> <<>>]}

VARIABLES
    exists,          \* the owners files present in the workspace
    oChangedFiles,   \* getCodeOwners' changedFiles argument
    results,         \* getMetaFiles: one findNearestFile result per changed file
    reviewersFiles,  \* getCodeOwners: the files handed to getMetaInfoFromFiles
    usedFallback,    \* getCodeOwners took the `reviewersFiles = [ownersFilename]` branch
    pending,         \* getMetaInfoFromFiles: indices whose readFile has not settled
    fileData,        \* what each settled readFile gave, by index
    labels,          \* getMetaInfoFromFiles: the accumulated lines
    readErrors,      \* indices logged by console.error
    reviewersMap,    \* getMetaInfoFromFiles' result
    oRejected,       \* getMetaInfoFromFiles rejected
    oPc              \* position in getCodeOwners

ownersVars ==
    <<exists, oChangedFiles, results, reviewersFiles, usedFallback, pending,
      fileData, labels, readErrors, reviewersMap, oRejected, oPc>>

(***************************************************************************)
(* findNearestFile(filename, filePath): the owners file of the nearest     *)
(* ancestor directory of filePath, or Absent.                              *)
(***************************************************************************)
RECURSIVE FindUp(_, _)
FindUp(dir, filename) ==
    IF Append(dir, filename) \in exists THEN Append(dir, filename)
    ELSE IF dir = <<>> THEN Absent
    ELSE FindUp(Front(dir), filename)

FindNearestFile(filename, filePath) == FindUp(Front(filePath), filename)

\* getMetaFiles: `results`, one lookup per changed file, in their order.
NearestFiles(changedFiles, filename) ==
    [i \in 1..Len(changedFiles) |-> FindNearestFile(filename, changedFiles[i])]

\* getMetaFiles(changedFiles, filename)
GetMetaFiles(changedFiles, filename) == Dedupe(NearestFiles(changedFiles, filename))

\* fileData.split('\n')
RECURSIVE Split(_)
Split(s) ==
    IF \A i \in 1..Len(s) : s[i] # "\n" THEN <<s>>
    ELSE LET i == CHOOSE k \in 1..Len(s) :
                      s[k] = "\n" /\ \A j \in 1..(k - 1) : s[j] # "\n"
         IN <<SubSeq(s, 1, i - 1)>> \o Split(SubSeq(s, i + 1, Len(s)))

\* list.filter(Boolean) on a list of strings: the empty string is the only
\* falsy one.
FilterBoolean(s) == SelectSeq(s, LAMBDA line : line # <<>>)

(***************************************************************************)
(* The main flow: the pull request on the platform, the event's context,   *)
(* and the run's own variables.                                            *)
(***************************************************************************)
\* Bounds of the main flow.
\* Longest review history of the pull request under Spec.
MaxHistory == 2
\* Longest review history under SpecReviews, and its latest timestamp.
MaxReviews == 2
MaxTime == 2
\* Runs of the action on one pull request under SpecRerun, and the longest
\* review history the first of them finds.
MaxRuns == 2
MaxHistoryRerun == 1

\* process.env.GITHUB_WORKSPACE
PATH_PREFIX == "/ws"

\* The login of the token's user, and pull_request.user.login.
Bot == "bot"
Author == "alice"

Logins == {"bob", Bot}

PrFilenames == {"f1", "f2"}

\* The ignore_files input: none, or a pattern matching f2 alone.
IgnoreInputs == {<<>>, <<"f2">>}

ReviewStates == {"APPROVED", "DISMISSED"}

\* context.eventName; only a push payload carries no pull_request.
EventNames == {"pull_request", "pull_request_review", "pull_request_target", "push"}

PayloadHasPullRequest(event) == event # "push"

\* context.payload.review.state of a pull_request_review event.
ReviewEventStates == {"approved", "dismissed", "commented"}

FetchApis == {"listFiles", "listReviews", "getAuthenticated"}

MutatingApis == {"requestReviewers", "createReview", "dismissReview"}

VARIABLES
    prReviews,       \* the platform: the pull request's reviews, oldest first
    prRequested,     \* the platform: logins a review is requested from
    prFiles,         \* the platform: the filenames the pull request changes
    ignoreFiles,     \* the ignore_files input
    workspaceOwners, \* the owners map the workspace's owners files give
    eventName,       \* context.eventName
    sender,          \* context.payload.sender.login
    reviewState,     \* context.payload.review.state
    pc,              \* position of the main async function
    fetched,         \* which of the three concurrent fetches have resolved
    changedFiles,    \* main's changedFiles
    reviewers,       \* main's reviewers: login -> latest review
    allReviewersData, \* getReviewers' allReviewersData: the list fetched
    user,            \* main's user
    codeowners,      \* main's codeowners
    reviewersToAdd,  \* assignReviewers' reviewersToAdd
    calls,           \* the platform calls issued in this run, in order
    failedCall,      \* the platform call that rejected, or "none"
    failed,          \* core.setFailed was called and the process exited with 1
    errorReported,   \* core.error was called
    approvalRan,     \* approvalProcess was entered in this run
    run,             \* the number of this run
    assignedBefore,  \* an earlier run completed assignReviewers
    decidedBefore    \* what an earlier completed approvalProcess did, or "none"

platformVars == <<prReviews, prRequested, prFiles, ignoreFiles, workspaceOwners>>

contextVars == <<eventName, sender, reviewState>>

runVars ==
    <<pc, fetched, changedFiles, reviewers, allReviewersData, user, codeowners,
      reviewersToAdd, calls, failedCall, failed, errorReported, approvalRan>>

historyVars == <<run, assignedBefore, decidedBefore>>

mainVars == <<platformVars, contextVars, runVars, historyVars>>

vars == <<ownersVars, mainVars>>

\* path.join(PATH_PREFIX, file.filename)
PathJoin(prefix, filename) == <<prefix, filename>>

\* utils.filterChangedFiles(changedFiles, ignoreFiles): the files no pattern
\* matches; a pattern is modelled as the one filename it matches.
FilterChangedFiles(files, ignore) == {f \in files : f[2] \notin Range(ignore)}

\* getChangedFiles
GetChangedFiles ==
    FilterChangedFiles({PathJoin(PATH_PREFIX, name) : name \in prFiles}, ignoreFiles)

\* utils.getOwnersMap: the maps it can give for these changed files, whatever
\* the owners files hold: login -> {ownedFiles}, never the author, each
\* entry owning at least one changed file.
OwnersMaps(files, createdBy) ==
    UNION {[keys -> [ownedFiles : (SUBSET files) \ {{}}]] :
              keys \in SUBSET (Logins \ {createdBy})}

EmptyMap == [x \in {} |-> x]

\* getReviewers' forEach: the first review of a user, then any review of
\* theirs submitted strictly later than the one kept.
KeepsLastSeen(kept, review) == TRUE

ReplacesKept(kept, review) == review.submitted_at > kept.submitted_at

RECURSIVE GetReviewers(_)
GetReviewers(reviewList) ==
    IF reviewList = <<>> THEN EmptyMap
    ELSE LET latestReviews == GetReviewers(Front(reviewList))
             review == reviewList[Len(reviewList)]
             hasUserAlready == review.user \in DOMAIN latestReviews
         IN IF ~hasUserAlready THEN (review.user :> review) @@ latestReviews
            ELSE IF ReplacesKept(latestReviews[review.user], review)
                 THEN (review.user :> review) @@ latestReviews
                 ELSE latestReviews

\* assignReviewers, lines 81-90
ReviewersToAddIgnoringActivity(requestedUsers, reviewerLogins, owners) ==
    {reviewer \in DOMAIN owners : reviewer \notin requestedUsers}

ReviewersToAdd(requestedUsers, reviewerLogins, owners) ==
    LET reviewersOnPr == requestedUsers \cup reviewerLogins
    IN {reviewer \in DOMAIN owners : reviewer \notin reviewersOnPr}

\* approvalProcess, lines 149-162
Approvers(latest) == {reviewer \in DOMAIN latest : latest[reviewer].state = "APPROVED"}

AllApprovedFilesAnyApprover(owners, latest) ==
    UNION {owners[approver].ownedFiles : approver \in DOMAIN owners}

AllApprovedFiles(owners, latest) ==
    UNION {owners[approver].ownedFiles : approver \in Approvers(latest) \cap DOMAIN owners}

FilesWhichStillNeedApproval(owners, latest, files) ==
    {file \in files : file \notin AllApprovedFiles(owners, latest)}

\* approvalProcess, line 169; `acting` is the closure's `user`
CurrentUserHasReview(latest, acting) == acting \in DOMAIN latest

ApprovedOrDismissedByTheCurrentUser(latest, acting) ==
    acting \in DOMAIN latest /\ latest[acting].state \in {"APPROVED", "DISMISSED"}

ApprovedByTheCurrentUser(latest, acting) ==
    acting \in DOMAIN latest /\ latest[acting].state = "APPROVED"

\* main, lines 213-216: the guard of the pull_request_review case
ReviewGuardStateOnly(senderLogin, acting, state) ==
    state \in {"approved", "dismissed"}

ReviewGuard(senderLogin, acting, state) ==
    senderLogin # acting /\ state \in {"approved", "dismissed"}

\* The platform's clock: a new review is submitted after all there are.
NextTime ==
    1 + (CHOOSE t \in 0..(Len(prReviews) + MaxTime + MaxRuns) :
            /\ \A i \in 1..Len(prReviews) : prReviews[i].submitted_at <= t
            /\ t = 0 \/ \E i \in 1..Len(prReviews) : prReviews[i].submitted_at = t)

Apis == {calls[i].api : i \in 1..Len(calls)}

Call(api, arg) == [api |-> api, arg |-> arg]

(***************************************************************************)
(* Initial states.                                                         *)
(***************************************************************************)
OwnersIdle ==
    /\ exists = {}
    /\ oChangedFiles = <<>>
    /\ results = <<>>
    /\ reviewersFiles = <<>>
    /\ usedFallback = FALSE
    /\ pending = {}
    /\ fileData = <<>>
    /\ labels = <<>>
    /\ readErrors = {}
    /\ reviewersMap = <<>>
    /\ oRejected = FALSE
    /\ oPc = "idle"

\* The state of a run as the process starts.
RunStarts ==
    /\ pc = "start"
    /\ fetched = {}
    /\ changedFiles = {}
    /\ reviewers = EmptyMap
    /\ allReviewersData = <<>>
    /\ user = "unset"
    /\ codeowners = EmptyMap
    /\ reviewersToAdd = {}
    /\ calls = <<>>
    /\ failedCall = "none"
    /\ failed = FALSE
    /\ errorReported = FALSE
    /\ approvalRan = FALSE

MainIdle ==
    /\ prReviews = <<>>
    /\ prRequested = {}
    /\ prFiles = {}
    /\ ignoreFiles = <<>>
    /\ workspaceOwners = EmptyMap
    /\ eventName = "none"
    /\ sender = "none"
    /\ reviewState = "none"
    /\ pc = "idle"
    /\ fetched = {}
    /\ changedFiles = {}
    /\ reviewers = EmptyMap
    /\ allReviewersData = <<>>
    /\ user = "unset"
    /\ codeowners = EmptyMap
    /\ reviewersToAdd = {}
    /\ calls = <<>>
    /\ failedCall = "none"
    /\ failed = FALSE
    /\ errorReported = FALSE
    /\ approvalRan = FALSE
    /\ run = 0
    /\ assignedBefore = FALSE
    /\ decidedBefore = "none"

\* Review histories as the platform lists them: oldest first, ids and
\* timestamps in the order of submission.
ChronologicalHistories(n) ==
    UNION {{[i \in 1..k |-> [id |-> i, user |-> f[i][1], state |-> f[i][2],
                             submitted_at |-> i]] :
               f \in [1..k -> Logins \X ReviewStates]} : k \in 0..n}

\* Review lists in any order of their timestamps, ties included.
AnyOrderHistories(n, t) ==
    UNION {{[i \in 1..k |-> [id |-> i, user |-> f[i][1], state |-> f[i][2],
                             submitted_at |-> f[i][3]]] :
               f \in [1..k -> Logins \X ReviewStates \X (1..t)]} : k \in 0..n}

\* The event that starts a run. Only the pull_request_review case reads the
\* sender and the review's state; the other events get one sender.
ContextIs(event, senderLogin, state) ==
    /\ event \in EventNames
    /\ senderLogin \in (IF event = "pull_request_review" THEN Logins ELSE {"bob"})
    /\ state \in (IF event = "pull_request_review" THEN ReviewEventStates ELSE {"none"})

InitWith(histories) ==
    /\ OwnersIdle
    /\ prReviews \in histories
    /\ prRequested \in SUBSET Logins
    /\ prFiles \in SUBSET PrFilenames
    /\ ignoreFiles \in IgnoreInputs
    /\ workspaceOwners \in OwnersMaps(GetChangedFiles, Author)
    /\ eventName \in EventNames
    /\ sender \in Logins
    /\ reviewState \in ReviewEventStates \cup {"none"}
    /\ ContextIs(eventName, sender, reviewState)
    /\ RunStarts
    /\ run = 1
    /\ assignedBefore = FALSE
    /\ decidedBefore = "none"

Init == InitWith(ChronologicalHistories(MaxHistory))

(***************************************************************************)
(* The main flow's steps.                                                  *)
(***************************************************************************)
\* The .catch handler, lines 227-230, for a rejected platform call.
RejectedButGoesOn(api) ==
    /\ failedCall' = api
    /\ failed' = TRUE
    /\ pc' = IF api \in {"listRequestedReviewers", "requestReviewers"}
             THEN "approval" ELSE "exit"

Rejected(api) ==
    /\ failedCall' = api
    /\ failed' = TRUE
    /\ pc' = "exit"

\* Lines 13-21 and 192-200: read the context, then issue the three fetches.
\* Without payload.pull_request, `pull_request.number` throws.
Start ==
    /\ pc = "start"
    /\ IF PayloadHasPullRequest(eventName)
       THEN /\ calls' = <<Call("listFiles", "none"), Call("listReviews", "none"),
                         Call("getAuthenticated", "none")>>
            /\ pc' = "fetch"
            /\ UNCHANGED failed
       ELSE /\ failed' = TRUE
            /\ pc' = "exit"
            /\ UNCHANGED calls
    /\ UNCHANGED <<fetched, changedFiles, reviewers, allReviewersData,
                   user, codeowners,
                   reviewersToAdd, failedCall, errorReported, approvalRan>>
    /\ UNCHANGED <<ownersVars, platformVars, contextVars, historyVars>>

\* Each of the three fetches resolves on its own; its value reaches main's
\* variables when Promise.all resolves (lines 192-200).
GetChangedFilesResolves ==
    /\ pc = "fetch" /\ "listFiles" \notin fetched
    /\ fetched' = fetched \cup {"listFiles"}
    /\ UNCHANGED <<pc, changedFiles, reviewers, allReviewersData,
                   user, codeowners, reviewersToAdd,
                   calls, failedCall, failed, errorReported, approvalRan>>
    /\ UNCHANGED <<ownersVars, platformVars, contextVars, historyVars>>

GetReviewersResolves ==
    /\ pc = "fetch" /\ "listReviews" \notin fetched
    /\ fetched' = fetched \cup {"listReviews"}
    /\ UNCHANGED <<pc, changedFiles, reviewers, allReviewersData,
                   user, codeowners, reviewersToAdd,
                   calls, failedCall, failed, errorReported, approvalRan>>
    /\ UNCHANGED <<ownersVars, platformVars, contextVars, historyVars>>

GetUserResolves ==
    /\ pc = "fetch" /\ "getAuthenticated" \notin fetched
    /\ fetched' = fetched \cup {"getAuthenticated"}
    /\ UNCHANGED <<pc, changedFiles, reviewers, allReviewersData,
                   user, codeowners, reviewersToAdd,
                   calls, failedCall, failed, errorReported, approvalRan>>
    /\ UNCHANGED <<ownersVars, platformVars, contextVars, historyVars>>

\* One of the fetches still in flight rejects: Promise.all rejects.
FetchRejects ==
    /\ pc = "fetch"
    /\ \E api \in FetchApis \ fetched : Rejected(api)
    /\ UNCHANGED <<fetched, changedFiles, reviewers, allReviewersData,
                   user, codeowners,
                   reviewersToAdd, calls, errorReported, approvalRan>>
    /\ UNCHANGED <<ownersVars, platformVars, contextVars, historyVars>>

\* getUser
GetUser == Bot

\* Lines 192-202: Promise.all resolved, its three values are bound, and
\* getCodeOwners(pull_request.user.login, changedFiles) gives the owners map.
GetCodeOwners ==
    /\ pc = "fetch" /\ fetched = FetchApis
    /\ changedFiles' = GetChangedFiles
    /\ allReviewersData' = prReviews
    /\ reviewers' = GetReviewers(prReviews)
    /\ user' = GetUser
    /\ codeowners' = workspaceOwners
    /\ pc' = "switch"
    /\ UNCHANGED <<fetched, reviewersToAdd, calls, failedCall, failed,
                   errorReported, approvalRan>>
    /\ UNCHANGED <<ownersVars, platformVars, contextVars, historyVars>>

\* Lines 204-209: case 'pull_request' enters assignReviewers, which issues
\* listRequestedReviewers.
SwitchPullRequest ==
    /\ pc = "switch" /\ eventName = "pull_request"
    /\ calls' = Append(calls, Call("listRequestedReviewers", "none"))
    /\ pc' = "assign"
    /\ UNCHANGED <<fetched, changedFiles, reviewers, allReviewersData,
                   user, codeowners,
                   reviewersToAdd, failedCall, failed, errorReported, approvalRan>>
    /\ UNCHANGED <<ownersVars, platformVars, contextVars, historyVars>>

\* Lines 211-221: case 'pull_request_review'.
SwitchReview ==
    /\ pc = "switch" /\ eventName = "pull_request_review"
    /\ pc' = IF ReviewGuard(sender, user, reviewState) THEN "approval" ELSE "exit"
    /\ UNCHANGED <<fetched, changedFiles, reviewers, allReviewersData,
                   user, codeowners,
                   reviewersToAdd, calls, failedCall, failed, errorReported,
                   approvalRan>>
    /\ UNCHANGED <<ownersVars, platformVars, contextVars, historyVars>>

\* Lines 223-225: default.
SwitchDefault ==
    /\ pc = "switch" /\ eventName \notin {"pull_request", "pull_request_review"}
    /\ errorReported' = TRUE
    /\ pc' = "exit"
    /\ UNCHANGED <<fetched, changedFiles, reviewers, allReviewersData,
                   user, codeowners,
                   reviewersToAdd, calls, failedCall, failed, approvalRan>>
    /\ UNCHANGED <<ownersVars, platformVars, contextVars, historyVars>>

\* assignReviewers, lines 76-101, once listRequestedReviewers resolved.
ListRequestedResolves ==
    /\ pc = "assign"
    /\ LET toAdd == ReviewersToAdd(prRequested, DOMAIN reviewers, codeowners)
       IN /\ reviewersToAdd' = toAdd
          /\ IF toAdd # {}
             THEN /\ calls' = Append(calls, Call("requestReviewers", toAdd))
                  /\ pc' = "request"
             ELSE /\ pc' = "approval"
                  /\ UNCHANGED calls
    /\ UNCHANGED <<fetched, changedFiles, reviewers, allReviewersData,
                   user, codeowners,
                   failedCall, failed, errorReported, approvalRan>>
    /\ UNCHANGED <<ownersVars, platformVars, contextVars, historyVars>>

ListRequestedRejects ==
    /\ pc = "assign"
    /\ Rejected("listRequestedReviewers")
    /\ UNCHANGED <<fetched, changedFiles, reviewers, allReviewersData,
                   user, codeowners,
                   reviewersToAdd, calls, errorReported, approvalRan>>
    /\ UNCHANGED <<ownersVars, platformVars, contextVars, historyVars>>

\* requestReviewers resolves: the platform now requests them.
RequestReviewersResolves ==
    /\ pc = "request"
    /\ prRequested' = prRequested \cup reviewersToAdd
    /\ pc' = "approval"
    /\ UNCHANGED <<prReviews, prFiles, ignoreFiles, workspaceOwners>>
    /\ UNCHANGED <<fetched, changedFiles, reviewers, allReviewersData,
                   user, codeowners,
                   reviewersToAdd, calls, failedCall, failed, errorReported,
                   approvalRan>>
    /\ UNCHANGED <<ownersVars, contextVars, historyVars>>

RequestReviewersRejects ==
    /\ pc = "request"
    /\ Rejected("requestReviewers")
    /\ UNCHANGED <<fetched, changedFiles, reviewers, allReviewersData,
                   user, codeowners,
                   reviewersToAdd, calls, errorReported, approvalRan>>
    /\ UNCHANGED <<ownersVars, platformVars, contextVars, historyVars>>

\* approvalProcess, lines 147-188, up to its await.
ApprovalProcess(shouldDismiss) ==
    /\ pc = "approval"
    /\ approvalRan' = TRUE
    /\ LET filesWhichStillNeedApproval ==
               FilesWhichStillNeedApproval(codeowners, reviewers, changedFiles)
       IN IF filesWhichStillNeedApproval # {}
          THEN IF ApprovedByTheCurrentUser(reviewers, user) /\ shouldDismiss
               THEN /\ calls' = Append(calls, Call("dismissReview", reviewers[user].id))
                    /\ pc' = "dismiss"
               ELSE /\ pc' = "exit"
                    /\ UNCHANGED calls
          ELSE /\ calls' = Append(calls, Call("createReview", "APPROVE"))
               /\ pc' = "approve"
    /\ UNCHANGED <<fetched, changedFiles, reviewers, allReviewersData,
                   user, codeowners,
                   reviewersToAdd, failedCall, failed, errorReported>>
    /\ UNCHANGED <<ownersVars, platformVars, contextVars, historyVars>>

\* createReview resolves: the platform holds one more review, by the token's
\* user.
CreateReviewResolves ==
    /\ pc = "approve"
    /\ prReviews' = Append(prReviews, [id |-> Len(prReviews) + 1, user |-> Bot,
                                      state |-> "APPROVED", submitted_at |-> NextTime])
    /\ pc' = "exit"
    /\ UNCHANGED <<prRequested, prFiles, ignoreFiles, workspaceOwners>>
    /\ UNCHANGED <<fetched, changedFiles, reviewers, allReviewersData,
                   user, codeowners,
                   reviewersToAdd, calls, failedCall, failed, errorReported,
                   approvalRan>>
    /\ UNCHANGED <<ownersVars, contextVars, historyVars>>

CreateReviewRejects ==
    /\ pc = "approve"
    /\ Rejected("createReview")
    /\ UNCHANGED <<fetched, changedFiles, reviewers, allReviewersData,
                   user, codeowners,
                   reviewersToAdd, calls, errorReported, approvalRan>>
    /\ UNCHANGED <<ownersVars, platformVars, contextVars, historyVars>>

\* dismissReview resolves: the platform marks that review dismissed.
DismissReviewResolves ==
    /\ pc = "dismiss"
    /\ prReviews' = [prReviews EXCEPT ![calls[Len(calls)].arg].state = "DISMISSED"]
    /\ pc' = "exit"
    /\ UNCHANGED <<prRequested, prFiles, ignoreFiles, workspaceOwners>>
    /\ UNCHANGED <<fetched, changedFiles, reviewers, allReviewersData,
                   user, codeowners,
                   reviewersToAdd, calls, failedCall, failed, errorReported,
                   approvalRan>>
    /\ UNCHANGED <<ownersVars, contextVars, historyVars>>

DismissReviewRejects ==
    /\ pc = "dismiss"
    /\ Rejected("dismissReview")
    /\ UNCHANGED <<fetched, changedFiles, reviewers, allReviewersData,
                   user, codeowners,
                   reviewersToAdd, calls, errorReported, approvalRan>>
    /\ UNCHANGED <<ownersVars, platformVars, contextVars, historyVars>>

\* What a run that ended did with its approval decision, or "none".
Decided ==
    IF ~approvalRan \/ failedCall # "none" THEN "none"
    ELSE IF "createReview" \in Apis THEN "APPROVE"
    ELSE IF "dismissReview" \in Apis THEN "DISMISS"
    ELSE "REQUEST_MORE"

\* Whether a run that ended completed assignReviewers.
Assigned ==
    /\ "listRequestedReviewers" \in Apis
    /\ failedCall \notin {"listRequestedReviewers", "requestReviewers"}

\* The workflow starts the action again, on a later event of the same pull
\* request; nothing but the action has touched the pull request meanwhile.
Rerun ==
    /\ pc = "exit"
    /\ run < MaxRuns
    /\ run' = run + 1
    /\ assignedBefore' = (assignedBefore \/ Assigned)
    /\ decidedBefore' = IF Decided # "none" THEN Decided ELSE decidedBefore
    /\ \E event \in EventNames, senderLogin \in Logins,
          state \in ReviewEventStates \cup {"none"} :
          /\ ContextIs(event, senderLogin, state)
          /\ eventName' = event
          /\ sender' = senderLogin
          /\ reviewState' = state
    /\ pc' = "start"
    /\ fetched' = {}
    /\ changedFiles' = {}
    /\ reviewers' = EmptyMap
    /\ allReviewersData' = <<>>
    /\ user' = "unset"
    /\ codeowners' = EmptyMap
    /\ reviewersToAdd' = {}
    /\ calls' = <<>>
    /\ failedCall' = "none"
    /\ failed' = FALSE
    /\ errorReported' = FALSE
    /\ approvalRan' = FALSE
    /\ UNCHANGED <<ownersVars, platformVars>>

Next ==
    \/ Start
    \/ GetChangedFilesResolves
    \/ GetReviewersResolves
    \/ GetUserResolves
    \/ FetchRejects
    \/ GetCodeOwners
    \/ SwitchPullRequest
    \/ SwitchReview
    \/ SwitchDefault
    \/ ListRequestedResolves
    \/ ListRequestedRejects
    \/ RequestReviewersResolves
    \/ RequestReviewersRejects
    \/ ApprovalProcess(TRUE)
    \/ CreateReviewResolves
    \/ CreateReviewRejects
    \/ DismissReviewResolves
    \/ DismissReviewRejects

Spec == Init /\ [][Next]_vars

\* A review event another user sent, which enters approvalProcess, on review
\* lists in any order.
InitReviews ==
    /\ InitWith(AnyOrderHistories(MaxReviews, MaxTime))
    /\ eventName = "pull_request_review"
    /\ sender = "bob"
    /\ reviewState = "approved"
    /\ prRequested = {}
    /\ ignoreFiles = <<>>

NextReviews ==
    \/ Start
    \/ GetChangedFilesResolves
    \/ GetReviewersResolves
    \/ GetUserResolves
    \/ FetchRejects
    \/ GetCodeOwners
    \/ SwitchReview
    \/ ApprovalProcess(TRUE)
    \/ CreateReviewResolves
    \/ CreateReviewRejects
    \/ DismissReviewResolves
    \/ DismissReviewRejects

SpecReviews == InitReviews /\ [][NextReviews]_vars

\* Runs that follow one another on the same pull request.
InitRerun ==
    /\ InitWith(ChronologicalHistories(MaxHistoryRerun))
    /\ ignoreFiles = <<>>

NextRerun == Next \/ Rerun

SpecRerun == InitRerun /\ [][NextRerun]_vars

(***************************************************************************)
(* getCodeOwners' file pipeline.                                           *)
(***************************************************************************)
OwnersInit ==
    /\ MainIdle
    /\ exists \in SUBSET OwnersPaths
    /\ oChangedFiles \in {s \in SeqsUpTo(WorkspaceFiles, MaxChanged) : NoRepeat(s)}
    /\ results = <<>>
    /\ reviewersFiles = <<>>
    /\ usedFallback = FALSE
    /\ pending = {}
    /\ fileData = <<>>
    /\ labels = <<>>
    /\ readErrors = {}
    /\ reviewersMap = <<>>
    /\ oRejected = FALSE
    /\ oPc = "getMetaFiles"

\* getCodeOwners, line 52: await utils.getMetaFiles(changedFiles, ownersFilename)
AwaitMetaFiles ==
    /\ oPc = "getMetaFiles"
    /\ results' = NearestFiles(oChangedFiles, ownersFilename)
    /\ reviewersFiles' = GetMetaFiles(oChangedFiles, ownersFilename)
    /\ oPc' = "fallback"
    /\ UNCHANGED <<exists, oChangedFiles, usedFallback, pending, fileData,
                   labels, readErrors, reviewersMap, oRejected>>
    /\ UNCHANGED mainVars

\* The condition of getCodeOwners' fallback.
NeedsFallback(files) == Len(files) <= 0

\* getCodeOwners, lines 54-58, and getMetaInfoFromFiles up to its awaits: the
\* fallback, then one callback per file, each returning at once for a falsy
\* file and otherwise awaiting its readFile.
StartReads ==
    /\ oPc = "fallback"
    /\ LET files == IF NeedsFallback(reviewersFiles)
                    THEN <<DefaultOwnersPath>>
                    ELSE reviewersFiles
       IN /\ reviewersFiles' = files
          /\ usedFallback' = NeedsFallback(reviewersFiles)
          /\ pending' = {i \in 1..Len(files) : files[i] # Absent}
    /\ labels' = <<>>
    /\ oPc' = "reading"
    /\ UNCHANGED <<exists, oChangedFiles, results, fileData, readErrors,
                   reviewersMap, oRejected>>
    /\ UNCHANGED mainVars

\* Whether a rejected readFile rejects the callback: the catch block logs
\* and resolves.
CatchRethrows == TRUE

CatchRejects == FALSE

\* One readFile settles. A file that is not there rejects; one that is there
\* gives its text, or rejects (a directory, no permission).
ReadSettles(i) ==
    /\ oPc = "reading"
    /\ i \in pending
    /\ \E outcome \in ReadOutcomes :
          /\ (reviewersFiles[i] \in OwnersPaths \ exists) => ~outcome.ok
          /\ fileData' = (i :> outcome) @@ fileData
          /\ IF outcome.ok
             THEN /\ labels' = labels \o Split(outcome.data)
                  /\ UNCHANGED <<readErrors, oRejected>>
             ELSE /\ readErrors' = readErrors \cup {i}
                  /\ oRejected' = CatchRejects
                  /\ UNCHANGED labels
          /\ oPc' = IF ~outcome.ok /\ CatchRejects THEN "rejected" ELSE oPc
    /\ pending' = pending \ {i}
    /\ UNCHANGED <<exists, oChangedFiles, results, reviewersFiles, usedFallback,
                   reviewersMap>>
    /\ UNCHANGED mainVars

\* Promise.all resolved: return [...new Set(labels)].filter(Boolean)
ReturnMetaInfo ==
    /\ oPc = "reading"
    /\ pending = {}
    /\ reviewersMap' = FilterBoolean(Dedupe(labels))
    /\ oPc' = "done"
    /\ UNCHANGED <<exists, oChangedFiles, results, reviewersFiles, usedFallback,
                   pending, fileData, labels, readErrors, oRejected>>
    /\ UNCHANGED mainVars

OwnersNext ==
    \/ AwaitMetaFiles
    \/ StartReads
    \/ \E i \in pending : ReadSettles(i)
    \/ ReturnMetaInfo

SpecOwners == OwnersInit /\ [][OwnersNext]_vars

(***************************************************************************)
(* The properties.                                                         *)
(***************************************************************************)
\* What the properties say of coverage, in their own words: the reviewer is
\* a key of the owners map, their latest review is APPROVED, and the file is
\* among their ownedFiles.
CoveredBy(file, reviewer) ==
    /\ reviewer \in DOMAIN codeowners
    /\ reviewer \in DOMAIN reviewers
    /\ reviewers[reviewer].state = "APPROVED"
    /\ file \in codeowners[reviewer].ownedFiles

Uncovered == {file \in changedFiles : ~\E reviewer \in Logins : CoveredBy(file, reviewer)}

Called(api) == \E i \in 1..Len(calls) : calls[i].api = api

\* C1: whenever approvalProcess runs it creates an approving review if and
\* only if every changed file is among the ownedFiles of some key of the
\* owners map whose latest review is APPROVED.
C1_ApproveIffEveryFileCovered ==
    approvalRan =>
        (Called("createReview") <=>
            \A file \in changedFiles : \E reviewer \in Logins : CoveredBy(file, reviewer))

\* An approving review that needed two approvers, each owning one of the two
\* changed files.
C1_Witness ==
    /\ approvalRan
    /\ Called("createReview")
    /\ Cardinality(changedFiles) = 2
    /\ \A reviewer \in DOMAIN codeowners :
          Cardinality(codeowners[reviewer].ownedFiles) = 1

\* C3: a run calls dismissReview if and only if approvalProcess ran, some
\* changed file is uncovered and the latest review of the token's user is
\* APPROVED; it dismisses that very review, and never both approves and
\* dismisses.
C3_DismissOnlyTheActorsStaleApproval ==
    /\ Called("dismissReview") <=>
          /\ approvalRan
          /\ Uncovered # {}
          /\ Bot \in DOMAIN reviewers
          /\ reviewers[Bot].state = "APPROVED"
    /\ \A i \in 1..Len(calls) :
          calls[i].api = "dismissReview" =>
              /\ calls[i].arg = reviewers[Bot].id
              /\ allReviewersData[calls[i].arg].user = Bot
              /\ \A j \in 1..Len(allReviewersData) :
                    allReviewersData[j].user = Bot =>
                        allReviewersData[j].submitted_at
                            <= allReviewersData[calls[i].arg].submitted_at
    /\ ~(Called("createReview") /\ Called("dismissReview"))

\* The actor's approval is dismissed while another reviewer's approval stands.
C3_Witness ==
    /\ pc = "exit"
    /\ failedCall = "none"
    /\ Called("dismissReview")
    /\ "bob" \in DOMAIN reviewers
    /\ reviewers["bob"].state = "APPROVED"

\* C4: on a pull_request_review event whose fetches resolved, approvalProcess
\* runs if and only if the sender is not the token's user and the review's
\* state is approved or dismissed; an event the token's user sent leads to no
\* approve or dismiss call, and no review event requests reviewers.
C4_ReviewEventGuard ==
    eventName = "pull_request_review" =>
        /\ (pc = "exit" /\ failedCall \notin FetchApis) =>
              (approvalRan <=>
                  (sender # Bot /\ reviewState \in {"approved", "dismissed"}))
        /\ approvalRan => (sender # Bot /\ reviewState \in {"approved", "dismissed"})
        /\ sender = Bot => ~Called("createReview") /\ ~Called("dismissReview")
        /\ ~Called("requestReviewers") /\ ~Called("listRequestedReviewers")

\* The action's own approving review comes back as an event and the run ends
\* without entering approvalProcess, although every changed file is covered.
C4_Witness ==
    /\ eventName = "pull_request_review"
    /\ sender = Bot
    /\ reviewState = "approved"
    /\ pc = "exit"
    /\ failedCall = "none"
    /\ ~approvalRan
    /\ changedFiles # {}
    /\ Uncovered = {}

\* C7: a platform call that fails ends the run as failed; no call is issued
\* twice; the failed call is the last one issued (the fetches, issued
\* together, are the only calls of a run one of them fails); and when reviewer
\* assignment fails the run neither approves nor dismisses.
C7_PlatformFailureFailsFast ==
    /\ failedCall # "none" => (failed /\ pc = "exit")
    /\ \A i, j \in 1..Len(calls) : calls[i].api = calls[j].api => i = j
    /\ failedCall # "none" =>
          \/ failedCall \in FetchApis /\ Apis = FetchApis
          \/ calls[Len(calls)].api = failedCall
    /\ failedCall \in {"listRequestedReviewers", "requestReviewers"} =>
          /\ ~approvalRan
          /\ ~Called("createReview")
          /\ ~Called("dismissReview")

\* requestReviewers failed on a pull_request event.
C7_Witness ==
    /\ eventName = "pull_request"
    /\ pc = "exit"
    /\ failedCall = "requestReviewers"
    /\ failed

\* C8: an event other than pull_request and pull_request_review reports an
\* error, mutates nothing and ends as a soft failure, also when its payload
\* carries no pull request.
C8_UnsupportedEventSoftFails ==
    (pc = "exit" /\ eventName \notin {"pull_request", "pull_request_review"}) =>
        /\ errorReported
        /\ ~failed
        /\ Apis \cap MutatingApis = {}

\* The records of a reviewer in the list fetched.
RecordsOf(login) ==
    {allReviewersData[i] : i \in {j \in 1..Len(allReviewersData) :
                                      allReviewersData[j].user = login}}

\* The reviewer approved and, strictly later than every other record of
\* theirs, was dismissed.
ApprovedThenDismissed(login) ==
    /\ \E a \in RecordsOf(login) : a.state = "APPROVED"
    /\ \E d \in RecordsOf(login) :
          /\ d.state = "DISMISSED"
          /\ \A r \in RecordsOf(login) : r # d => r.submitted_at < d.submitted_at

\* C2: getReviewers maps every reviewer with a review in the list to one of
\* their own records whose submitted_at is the greatest among theirs, in
\* whatever order the list comes; a reviewer approved and later dismissed is
\* no approver, and a file only such reviewers (or non-approvers) own keeps
\* the run from approving.
C2_LatestReviewPerReviewer ==
    pc \notin {"start", "fetch"} =>
        /\ DOMAIN reviewers =
              {allReviewersData[i].user : i \in 1..Len(allReviewersData)}
        /\ \A login \in DOMAIN reviewers :
              /\ reviewers[login] \in RecordsOf(login)
              /\ \A r \in RecordsOf(login) :
                    r.submitted_at <= reviewers[login].submitted_at
        /\ \A login \in Logins :
              ApprovedThenDismissed(login) =>
                  /\ reviewers[login].state # "APPROVED"
                  /\ (\E file \in changedFiles :
                         /\ login \in DOMAIN codeowners
                         /\ file \in codeowners[login].ownedFiles
                         /\ \A other \in Logins \ {login} : ~CoveredBy(file, other))
                     => ~Called("createReview")

\* The list holds bob's dismissal before the approval it came after; bob
\* alone owns a changed file, and the run ends without approving.
C2_Witness ==
    /\ pc = "exit"
    /\ approvalRan
    /\ failedCall = "none"
    /\ ~Called("createReview")
    /\ ApprovedThenDismissed("bob")
    /\ Len(allReviewersData) = 2
    /\ allReviewersData[1].state = "DISMISSED"
    /\ allReviewersData[2].state = "APPROVED"
    /\ DOMAIN codeowners = {"bob"}
    /\ changedFiles # {}

\* Whether the step of main that follows assignReviewers' computation of
\* reviewersToAdd has been reached in this run.
DeltaComputed ==
    /\ Called("listRequestedReviewers")
    /\ pc # "assign"
    /\ failedCall # "listRequestedReviewers"

Activity == {allReviewersData[i].user : i \in 1..Len(allReviewersData)}

\* C5: reviewersToAdd is the owners map's keys less the requested reviewers
\* and the reviewers with a review; requestReviewers is called with it, and
\* only when it is not empty; and a pull_request run that follows a run which
\* assigned reviewers (its assignReviewers completed), on a pull request
\* nothing else has touched, computes an empty reviewersToAdd and requests
\* nobody.
C5_AssignmentIdempotent ==
    /\ pc = "request" =>
          /\ reviewersToAdd = DOMAIN codeowners \ (prRequested \cup Activity)
          /\ reviewersToAdd # {}
    /\ \A i \in 1..Len(calls) :
          calls[i].api = "requestReviewers" =>
              (calls[i].arg = reviewersToAdd /\ reviewersToAdd # {})
    /\ (DeltaComputed /\ ~Called("requestReviewers")) =>
          /\ reviewersToAdd = {}
          /\ DOMAIN codeowners \subseteq (prRequested \cup Activity)
    /\ (assignedBefore /\ eventName = "pull_request") =>
          /\ ~Called("requestReviewers")
          /\ DeltaComputed => reviewersToAdd = {}

\* A second pull_request run finds the owner the first one requested, and
\* goes on to approvalProcess without a request.
C5_Witness ==
    /\ run = 2
    /\ assignedBefore
    /\ eventName = "pull_request"
    /\ pc = "approval"
    /\ reviewersToAdd = {}
    /\ \E owner \in DOMAIN codeowners : owner \in prRequested /\ owner \notin Activity

\* C10 as stated: once approvalProcess has completed on the pull request, a
\* later run on the unchanged pull request creates no approving review and
\* dismisses no review.
C10_SecondRunDoesNothingMore ==
    decidedBefore # "none" => (~Called("createReview") /\ ~Called("dismissReview"))

\* C10, amended: once approvalProcess has completed on the pull request, a
\* later run on the unchanged pull request dismisses no review, and its
\* approvalProcess creates an approving review exactly when the earlier one
\* did: the approval is issued again, the dismissal is not.
C10_DecisionRepeatsDismissalDoesNot ==
    decidedBefore # "none" =>
        /\ ~Called("dismissReview")
        /\ approvalRan => (Called("createReview") <=> decidedBefore = "APPROVE")

\* A second run after one that dismissed the actor's approval: approvalProcess
\* runs again and is done without a call.
C10_Witness ==
    /\ run = 2
    /\ decidedBefore = "DISMISS"
    /\ approvalRan
    /\ pc = "exit"
    /\ ~Called("dismissReview")
    /\ ~Called("createReview")

\* The lines of a text, said without splitting it: the stretches free of
\* newlines that reach from the text's start or a newline to the text's end
\* or a newline.
LinesOf(text) ==
    {SubSeq(text, p[1], p[2]) :
        p \in {q \in (1..(Len(text) + 1)) \X (0..Len(text)) :
                  /\ q[1] <= q[2] + 1
                  /\ \A k \in q[1]..q[2] : text[k] # "\n"
                  /\ q[1] = 1 \/ text[q[1] - 1] = "\n"
                  /\ q[2] = Len(text) \/ text[q[2] + 1] = "\n"}}

ReadableIndices == {i \in DOMAIN fileData : fileData[i].ok}

\* C6: when every lookup of a changed file's owners file comes back absent,
\* also with changed files at hand, getCodeOwners falls back to the default
\* owners filename as its one source and reads the reviewers from it.
C6_FallbackWhenNothingResolves ==
    (oPc \in {"reading", "done"} /\ \A i \in 1..Len(results) : results[i] = Absent) =>
        /\ usedFallback
        /\ reviewersFiles = <<DefaultOwnersPath>>
        /\ oPc = "done" =>
              Range(reviewersMap) =
                  UNION {LinesOf(fileData[i].data) \ {<<>>} : i \in ReadableIndices}

\* C9: getMetaInfoFromFiles gives exactly the distinct non-empty lines of the
\* files it could read, whatever the order of the paths and of the reads'
\* completion; an absent path is not read, a failed read adds nothing, and
\* neither rejects the call.
C9_MetaInfoIsTheLinesOfReadableFiles ==
    /\ ~oRejected /\ oPc # "rejected"
    /\ oPc = "done" =>
          /\ DOMAIN fileData = {i \in 1..Len(reviewersFiles) : reviewersFiles[i] # Absent}
          /\ Range(reviewersMap) =
                UNION {LinesOf(fileData[i].data) \ {<<>>} : i \in ReadableIndices}
          /\ NoRepeat(reviewersMap)
          /\ readErrors = DOMAIN fileData \ ReadableIndices

\* Two owners files; the second file's read settles
\* first, the first file's read fails, and the text read holds a line twice
\* and an empty line.
C9_Witness ==
    /\ oPc = "done"
    /\ Len(reviewersFiles) = 2
    /\ reviewersFiles[1] # Absent /\ reviewersFiles[2] # Absent
    /\ ~fileData[1].ok
    /\ fileData[2].ok
    /\ fileData[2].data = <<"a", "\n", "a">>
    /\ reviewersMap = <<(<<"a">>)>>

====
